---- MODULE Spec2Model ----
(***************************************************************************)
(* go-utils: the line splitter (utils/splitter) and the directory          *)
(* housekeeper (utils/housekeeper), modelled over a small file system.     *)
(*                                                                         *)
(* A file's content is a sequence of bytes drawn from Byte; a path is a    *)
(* record [dir, base, parts, ext] that stands for                          *)
(*     dir/base_part<p1>_part<p2>...ext                                    *)
(* so that fmt.Sprintf("%s_part%d%s", baseName, fileCount, fileExt) is     *)
(* the path with one more element in parts.                                *)
(***************************************************************************)
EXTENDS Integers, Sequences, FiniteSets, TLC

VARIABLES
    files,        \* splitter file system: path -> content, for the files that exist
    dirs,         \* splitter file system: the directories that exist
    pc,           \* position of SplitFileByLines: "idle", "scan", "returned"
    args,         \* arguments of the call in progress / last call
    scanBuf,      \* bufio.Scanner: the part of the source not yet consumed
    linesCount,   \* local linesCount
    fileCount,    \* local fileCount
    outputFile,   \* local outputFile: <<path>> of the open part file, <<>> for nil
    writerBuf,    \* local writer: bytes buffered and not yet flushed
    srcOpen,      \* the source handle `file` is open
    result,       \* "none", "ok", or the error returned
    fs0,          \* the file system as it was when the call was made
    created,      \* part files created by os.Create during the call, in order
    opened,       \* os.Open has been called on the source during the call
    openParts,    \* the part files whose handle is open
    faults,       \* the I/O operations that the environment may make fail
    injected,     \* the I/O operations that did fail during the call
    repeated,     \* the call is the second one, made with the arguments of the first
    prevResult,   \* what the first call returned, when repeated
    prevMade      \* the files an earlier call on another source made, with their content

splitVars == <<files, dirs, pc, args, scanBuf, linesCount, fileCount, outputFile,
               writerBuf, srcOpen, result, fs0, created, opened, openParts, faults,
               injected, repeated, prevResult, prevMade>>

VARIABLES
    hkTree,       \* housekeeper file system: path -> [dir, age] for the nodes that exist
    hkLocked,     \* the paths whose os.Remove fails
    hkPc,         \* "idle" or "returned"
    hkCall,       \* the call made
    hkResult,     \* "none", "ok", or the error returned
    hkRemoved,    \* local removed: the paths removed, in order
    hkTree0,      \* the tree as it was when the call was made
    hkLog,        \* the lines given to the logger by the call
    hkRepeated,   \* the call is the second one, made with the arguments of the first
    hkFirst,      \* what the first call returned, removed and logged, when repeated
    hkSorted      \* the last listing given to sort.Slice and the order it came out in

hkVars == <<hkTree, hkLocked, hkPc, hkCall, hkResult, hkRemoved, hkTree0, hkLog,
            hkRepeated, hkFirst, hkSorted>>

VARIABLES
    logFile,      \* Logger.logFile, the handle of the log file: "open" or "closed"
    logDisk,      \* the content of the log file
    stdout,       \* what has been printed to the console
    logCalls      \* the calls of Info, Warning, Error and Summary made, in order

logVars == <<logFile, logDisk, stdout, logCalls>>

vars == <<splitVars, hkVars, logVars>>

----------------------------------------------------------------------------
(* Bounds of the model *)

MaxLen == 4

MaxLinesPerFile == 3

----------------------------------------------------------------------------
(* Bytes, contents, paths *)

Byte == {"a", "b", "CR", "LF"}

RECURSIVE SeqsUpTo(_)
SeqsUpTo(n) ==
    IF n = 0 THEN {<<>>}
    ELSE LET shorter == SeqsUpTo(n - 1)
         IN  shorter \cup {Append(s, b) : s \in {t \in shorter : Len(t) = n - 1}, b \in Byte}

Contents == SeqsUpTo(MaxLen)

EmptyPath == [dir |-> "", base |-> "", parts |-> <<>>, ext |-> ""]

SourcePath == [dir |-> "in", base |-> "data", parts |-> <<>>, ext |-> ".csv"]

\* filepath.Base(filePath): the last element of the path
Base(p) == [base |-> p.base, parts |-> p.parts, ext |-> p.ext]

\* filepath.Join(dir, name)
Join(dir, name) == [dir |-> dir, base |-> name.base, parts |-> name.parts, ext |-> name.ext]

\* as OutputPath, were the part number left out of the name
OutputPath_unnumbered(outputDir, filePath, n) ==
    [dir |-> outputDir, base |-> filePath.base, parts |-> Append(filePath.parts, 1),
     ext |-> filePath.ext]

\* as OutputPath, were the parts numbered from 0
OutputPath_fromZero(outputDir, filePath, n) ==
    [dir |-> outputDir, base |-> filePath.base, parts |-> Append(filePath.parts, n - 1),
     ext |-> filePath.ext]

\* filepath.Join(outputDir, fmt.Sprintf("%s_part%d%s", baseName, fileCount, fileExt))
OutputPath(outputDir, filePath, n) ==
    [dir |-> outputDir, base |-> filePath.base, parts |-> Append(filePath.parts, n),
     ext |-> filePath.ext]

----------------------------------------------------------------------------
(* bufio.Scanner with bufio.ScanLines over the unread data of the source.    *)
(* The scanner's buffer grows up to MaxScanTokenSize bytes; a content of the *)
(* model holds single bytes and, as one element, LongRun, which stands for   *)
(* that many bytes "a" in a row.                                             *)

\* bufio.MaxScanTokenSize = 64 * 1024
MaxScanTokenSize == 65536

LongRun == "a x 65536"

RECURSIVE Size(_)
\* the number of bytes of a content
Size(data) ==
    IF data = <<>> THEN 0
    ELSE (IF Head(data) = LongRun THEN MaxScanTokenSize ELSE 1) + Size(Tail(data))

\* as dropCR, were the \r kept
dropCR_keep(data) == data

\* dropCR: drop one terminal \r from the data
dropCR(data) ==
    IF Len(data) > 0 /\ data[Len(data)] = "CR" THEN SubSeq(data, 1, Len(data) - 1) ELSE data

\* bytes.IndexByte(data, '\n'), 0 when there is none
IndexLF(data) ==
    IF \E i \in 1..Len(data) : data[i] = "LF"
    THEN CHOOSE i \in 1..Len(data) : data[i] = "LF" /\ \A j \in 1..(i - 1) : data[j] # "LF"
    ELSE 0

\* the unread data up to the first "\n", or all of it when there is none
UpToLF(data) == IF IndexLF(data) > 0 THEN SubSeq(data, 1, IndexLF(data) - 1) ELSE data

\* Scanner.Scan: the buffer is full, at its largest, and holds no "\n", so
\* the scan ends with ErrTooLong
TooLong(data) == Size(UpToLF(data)) >= MaxScanTokenSize

\* One call of scanner.Scan(): whether a token is found, the token, the data
\* left after advancing, and whether the scan ended on ErrTooLong.
ScanLines(data) ==
    IF Len(data) = 0
    THEN [found |-> FALSE, token |-> <<>>, rest |-> <<>>, err |-> FALSE]
    ELSE IF TooLong(data)
    THEN [found |-> FALSE, token |-> <<>>, rest |-> data, err |-> TRUE]
    ELSE IF IndexLF(data) > 0
    THEN [found |-> TRUE,
          token |-> dropCR(SubSeq(data, 1, IndexLF(data) - 1)),
          rest  |-> SubSeq(data, IndexLF(data) + 1, Len(data)),
          err   |-> FALSE]
    ELSE [found |-> TRUE, token |-> dropCR(data), rest |-> <<>>, err |-> FALSE]

----------------------------------------------------------------------------
(* File system operations *)

Exists(fs, p) == p \in DOMAIN fs

\* as WriteFile, were the other files lost
WriteFile_alone(fs, p, c) == [q \in {p} |-> c]

\* os.Create / a write: the file p holds content c afterwards
WriteFile(fs, p, c) == [q \in (DOMAIN fs) \cup {p} |-> IF q = p THEN c ELSE fs[q]]

\* as Rename, were the file copied and the original left behind
Rename_copy(fs, old, new) ==
    [q \in (DOMAIN fs) \cup {new} |-> IF q = new THEN fs[old] ELSE fs[q]]

\* as Rename, were nothing moved
Rename_keep(fs, old, new) == fs

\* os.Rename(old, new): new is replaced; renaming a file onto itself does nothing
Rename(fs, old, new) ==
    IF old = new THEN fs
    ELSE [q \in ((DOMAIN fs) \ {old}) \cup {new} |-> IF q = new THEN fs[old] ELSE fs[q]]

\* as Flushed, were the part file rewritten with the buffered bytes alone
Flushed_rewrite(fs, of, buf) ==
    IF of = <<>> THEN fs ELSE WriteFile(fs, of[1], buf)

\* as Flushed, were the buffered bytes dropped
Flushed_lost(fs, of, buf) == fs

\* writer.Flush(): the buffered bytes are appended to the open part file
Flushed(fs, of, buf) ==
    IF of = <<>> THEN fs ELSE WriteFile(fs, of[1], fs[of[1]] \o buf)

----------------------------------------------------------------------------
(* SplitFileByLines *)

\* as AtPartBoundary, were the boundary one line late
AtPartBoundary_late(count, linesPerFile) == count % (linesPerFile + 1) = 0

\* as AtPartBoundary, were a part file begun before the first line only
AtPartBoundary_first(count, linesPerFile) == count = 0

\* the loop's test for beginning a new part file
AtPartBoundary(count, linesPerFile) == count % linesPerFile = 0

\* as InvalidInput, were the paths not looked at
InvalidInput_linesOnly(filePath, linesPerFile, outputDir, processedDir) == linesPerFile <= 0

\* the input validation at the head of SplitFileByLines
InvalidInput(filePath, linesPerFile, outputDir, processedDir) ==
    \/ linesPerFile <= 0
    \/ filePath = EmptyPath \/ outputDir = "" \/ processedDir = ""

\* filepath.Join(processedDir, fileName)
ProcessedPath(processedDir, filePath) == Join(processedDir, Base(filePath))

Return(r) ==
    /\ pc' = "returned"
    /\ result' = r

\* the outcomes of the I/O of a step: "none" when every operation succeeds,
\* or the one operation of the step that the environment makes fail
Outcomes(kinds) == {"none"} \cup (kinds \cap faults)

\* the failures so far, with the one of this step ("spill" is the buffer
\* written through, no failure)
Failed(sofar, io) == IF io \in {"none", "spill"} THEN sofar ELSE sofar \cup {io}

\* as MkdirAllFails, were the error of os.MkdirAll not looked at
MkdirAllFails_ignored(io, which) == FALSE

\* if err := os.MkdirAll(dir, 0755); err != nil, for the one of the two
\* directories that `which` names
MkdirAllFails(io, which) == io = which

\* Entry of the call up to the first scanner.Scan(): validation, MkdirAll of
\* both directories, os.Open and Stat of the source.  The deferred
\* file.Close() runs on every return after the source was opened.
SplitBegin(filePath, linesPerFile, outputDir, processedDir, io) ==
    /\ pc \in {"idle", "returned"}
    /\ args' = [filePath |-> filePath, linesPerFile |-> linesPerFile,
                outputDir |-> outputDir, processedDir |-> processedDir]
    /\ fs0' = [files |-> files, dirs |-> dirs]
    /\ linesCount' = 0
    /\ fileCount' = 1
    /\ outputFile' = <<>>
    /\ writerBuf' = <<>>
    /\ created' = <<>>
    /\ injected' = Failed({}, io)
    /\ UNCHANGED <<files, openParts, faults>>
    /\ IF InvalidInput(filePath, linesPerFile, outputDir, processedDir)
       THEN /\ io = "none"
            /\ Return("invalid")
            /\ opened' = FALSE
            /\ UNCHANGED <<dirs, scanBuf, srcOpen>>
       ELSE IF MkdirAllFails(io, "mkdirOutput")
       THEN /\ Return("mkdir")
            /\ opened' = FALSE
            /\ UNCHANGED <<dirs, scanBuf, srcOpen>>
       ELSE IF MkdirAllFails(io, "mkdirProcessed")
       THEN /\ dirs' = dirs \cup {outputDir}
            /\ Return("mkdir")
            /\ opened' = FALSE
            /\ UNCHANGED <<scanBuf, srcOpen>>
       ELSE /\ dirs' = dirs \cup {outputDir, processedDir}
            /\ opened' = TRUE
            /\ IF io = "open" \/ ~Exists(files, filePath)
               THEN /\ Return("open")
                    /\ UNCHANGED <<scanBuf, srcOpen>>
               ELSE IF io = "stat"
               THEN /\ Return("stat")
                    /\ UNCHANGED <<scanBuf, srcOpen>>
               ELSE /\ pc' = "scan"
                    /\ srcOpen' = TRUE
                    /\ scanBuf' = files[filePath]
                    /\ UNCHANGED result

\* One iteration of `for scanner.Scan()`: at a part boundary the previous
\* part is flushed and closed and the next one created, then the line is
\* written followed by "\n".  The errors of Flush and Close are not looked
\* at; those of os.Create and WriteString end the call.  WriteString only
\* fails, or writes through ("spill"), when the writer's buffer is full.
SplitLine(io) ==
    /\ pc = "scan"
    /\ ScanLines(scanBuf).found
    /\ LET tok     == ScanLines(scanBuf)
           newPart == AtPartBoundary(linesCount, args.linesPerFile)
           path    == OutputPath(args.outputDir, args.filePath, fileCount)
           closed  == IF io = "flush" THEN files ELSE Flushed(files, outputFile, writerBuf)
           line    == tok.token \o <<"LF">>
       IN  /\ io = "flush" => newPart /\ outputFile # <<>>
           /\ io = "create" => newPart
           /\ scanBuf' = tok.rest
           /\ IF newPart /\ io = "create"
              THEN /\ files' = closed
                   /\ openParts' = {}
                   /\ srcOpen' = FALSE
                   /\ Return("create")
                   /\ UNCHANGED <<outputFile, writerBuf, fileCount, created, linesCount>>
              ELSE /\ IF newPart
                      THEN /\ files' = IF io = "spill"
                                       THEN WriteFile(closed, path, line)
                                       ELSE WriteFile(closed, path, <<>>)
                           /\ outputFile' = <<path>>
                           /\ openParts' = {path}
                           /\ writerBuf' = IF io = "spill" THEN <<>> ELSE line
                           /\ fileCount' = fileCount + 1
                           /\ created' = Append(created, path)
                      ELSE /\ files' = IF io = "spill"
                                       THEN Flushed(files, outputFile, writerBuf \o line)
                                       ELSE files
                           /\ writerBuf' = IF io = "spill" THEN <<>> ELSE writerBuf \o line
                           /\ UNCHANGED <<outputFile, openParts, fileCount, created>>
                   /\ IF io = "write"
                      THEN /\ srcOpen' = FALSE
                           /\ Return("write")
                           /\ UNCHANGED linesCount
                      ELSE /\ linesCount' = linesCount + 1
                           /\ UNCHANGED <<pc, result, srcOpen>>
    /\ injected' = Failed(injected, io)
    /\ UNCHANGED <<dirs, args, fs0, opened, faults>>

\* After the loop: scanner.Err() is looked at, the last part flushed and
\* closed, the source closed and renamed into processedDir.  A read error
\* ends the loop at any line, and so does a line too long for the scanner.
SplitEnd(io) ==
    /\ pc = "scan"
    /\ ~ScanLines(scanBuf).found \/ io = "read"
    /\ srcOpen' = FALSE
    /\ IF io = "read" \/ ScanLines(scanBuf).err
       THEN /\ Return("read")
            /\ UNCHANGED <<files, writerBuf, openParts>>
       ELSE /\ writerBuf' = <<>>
            /\ openParts' = {}
            /\ LET flushed == IF io = "flush" THEN files
                              ELSE Flushed(files, outputFile, writerBuf)
               IN  IF io = "rename"
                   THEN /\ files' = flushed
                        /\ Return("rename")
                   ELSE /\ files' = Rename(flushed, args.filePath,
                                           ProcessedPath(args.processedDir, args.filePath))
                        /\ Return("ok")
    /\ injected' = Failed(injected, io)
    /\ UNCHANGED <<dirs, args, scanBuf, linesCount, fileCount, outputFile, fs0, created,
                   opened, faults>>

----------------------------------------------------------------------------
(* 64-bit integers.  A Go int, int64 or time.Duration is eight limbs of     *)
(* eight bits, least significant first, in two's complement; products and   *)
(* sums keep the low 64 bits, as the compiled code does.                    *)

Limbs == 1..8

RECURSIVE NatLimbs(_, _)
\* the limbs of a natural number n, k limbs of them
NatLimbs(n, k) == IF k = 0 THEN <<>> ELSE <<n % 256>> \o NatLimbs(n \div 256, k - 1)

RECURSIVE Carry(_, _, _)
\* column sums to limbs: propagate the carry from limb i upwards, dropping
\* what leaves the 64 bits
Carry(cols, i, c) ==
    IF i > 8 THEN <<>>
    ELSE <<(cols[i] + c) % 256>> \o Carry(cols, i + 1, (cols[i] + c) \div 256)

RECURSIVE ColumnSum(_, _, _, _)
\* sum of a[i] * b[k + 1 - i] for i in 1..k
ColumnSum(a, b, k, i) ==
    IF i > k THEN 0 ELSE a[i] * b[k + 1 - i] + ColumnSum(a, b, k, i + 1)

Add64(a, b) == Carry([i \in Limbs |-> a[i] + b[i]], 1, 0)

Mul64(a, b) == Carry([k \in Limbs |-> ColumnSum(a, b, k, 1)], 1, 0)

Neg64(a) == Add64([i \in Limbs |-> 255 - a[i]], NatLimbs(1, 8))

\* the conversion of a small integer of the model to 64 bits
Int64(n) == IF n >= 0 THEN NatLimbs(n, 8) ELSE Neg64(NatLimbs(-n, 8))

RECURSIVE LessFrom(_, _, _)
\* unsigned comparison from limb i downwards
LessFrom(a, b, i) ==
    IF i = 0 THEN FALSE
    ELSE IF a[i] # b[i] THEN a[i] < b[i]
    ELSE LessFrom(a, b, i - 1)

IsNegative64(a) == a[8] >= 128

\* a < b as signed 64-bit integers
Less64(a, b) ==
    IF IsNegative64(a) # IsNegative64(b) THEN IsNegative64(a) ELSE LessFrom(a, b, 8)

\* time.Hour = 60 * Minute = 60 * 60 * Second = 60 * 60 * 1e9 nanoseconds
Hour == Mul64(Int64(60), Mul64(Int64(60), Int64(1000000000)))

----------------------------------------------------------------------------
(* The housekeeper's directory tree.  A node is a path, a sequence of      *)
(* names under the root; a regular file or a directory, with the age of    *)
(* its modification time in hours before the time of the call.             *)

MaxRootFiles == 2

Root == <<"d">>

Missing == <<"nonexistent">>

RootFileNames == SubSeq(<<"f1", "f2", "f3", "f4">>, 1, MaxRootFiles)

\* the names of the universe in lexical order, as os.ReadDir and
\* filepath.Walk list them
NameOrder == <<"d", "f1", "f2", "f3", "f4", "g", "h", "nonexistent", "s", "t">>

Rank(name) == CHOOSE i \in 1..Len(NameOrder) : NameOrder[i] = name

RootFiles == {Root \o <<RootFileNames[i]>> : i \in 1..Len(RootFileNames)}

SubDir == Root \o <<"s">>

SubFile == SubDir \o <<"g">>

DeepDir == SubDir \o <<"t">>

DeepFile == DeepDir \o <<"h">>

Ages == {0, 24, 25}

DirAges == {0, 48}

AllAges == Ages \cup DirAges

MaxAgeDaysValues == {-1, 0, 1, 106752}

Parent(p) == SubSeq(p, 1, Len(p) - 1)

Node(isDir, age) == [dir |-> isDir, age |-> age]

\* the entries of directory p, as a set
Entries(tree, p) == {q \in DOMAIN tree : Len(q) = Len(p) + 1 /\ Parent(q) = p}

RECURSIVE SortedByName(_)
\* os.ReadDir / readDirNames: the entries sorted by filename
SortedByName(S) ==
    IF S = {} THEN <<>>
    ELSE LET first == CHOOSE q \in S : \A r \in S : Rank(q[Len(q)]) <= Rank(r[Len(r)])
         IN  <<first>> \o SortedByName(S \ {first})

ReadDir(tree, p) == SortedByName(Entries(tree, p))

Without(tree, S) == [q \in (DOMAIN tree) \ S |-> tree[q]]

----------------------------------------------------------------------------
(* HousekeepFilesByAge *)

\* as RecursiveFlag, were the walk recursive unless told otherwise
RecursiveFlag_default(recursive) == IF Len(recursive) > 0 THEN recursive[1] ELSE TRUE

\* as InvalidAge, were the argument not looked at
InvalidAge_unchecked(maxAgeDays) == FALSE

\* maxAgeDays < 0
InvalidAge(maxAgeDays) == maxAgeDays < 0

\* as IsNotExist, were the directory not looked for
IsNotExist_unchecked(tree, dir) == FALSE

\* _, err := os.Stat(dir); os.IsNotExist(err)
IsNotExist(tree, dir) == dir \notin DOMAIN tree

\* recursiveFlag: false unless the variadic argument is given
RecursiveFlag(recursive) == IF Len(recursive) > 0 THEN recursive[1] ELSE FALSE

\* cutoff := now.Add(-time.Duration(maxAgeDays*24) * time.Hour), as the
\* offset from now in nanoseconds
Cutoff(maxAgeDays) == Mul64(Neg64(Mul64(Int64(maxAgeDays), Int64(24))), Hour)

\* the modification time of a file of the given age, as the offset from now
ModTime(age) == Neg64(Mul64(Int64(age), Hour))

\* info.ModTime().Before(cutoff)
Before(age, maxAgeDays) == Less64(ModTime(age), Cutoff(maxAgeDays))

\* Before, tabulated once over the ages and arguments of the model
BeforeTable == [age \in AllAges, maxAgeDays \in MaxAgeDaysValues |-> Before(age, maxAgeDays)]

BeforeCutoff(age, maxAgeDays) == BeforeTable[age, maxAgeDays]

RECURSIVE Walk(_, _, _, _)
RECURSIVE WalkAll(_, _, _, _)
\* filepath.Walk with the callback of HousekeepFilesByAge: the regular files
\* the callback tests, in the order of the walk.  A directory other than dir
\* returns SkipDir unless recursiveFlag is set.  For a path that cannot be
\* accessed the callback is given the error, logs it and goes on.
Walk(tree, p, dir, flag) ==
    IF p \notin DOMAIN tree THEN <<>>
    ELSE IF ~tree[p].dir THEN <<p>>
    ELSE IF ~flag /\ p # dir THEN <<>>
    ELSE WalkAll(tree, ReadDir(tree, p), dir, flag)

WalkAll(tree, names, dir, flag) ==
    IF names = <<>> THEN <<>>
    ELSE Walk(tree, Head(names), dir, flag) \o WalkAll(tree, Tail(names), dir, flag)

RECURSIVE Select(_, _)
\* the elements of a sequence that are in S, in order
Select(seq, S) ==
    IF seq = <<>> THEN <<>>
    ELSE (IF Head(seq) \in S THEN <<Head(seq)>> ELSE <<>>) \o Select(Tail(seq), S)

RECURSIVE RemoveEach_abort(_, _)
\* as RemoveEach, were the first failure to end the loop
RemoveEach_abort(paths, removable) ==
    IF paths = <<>> \/ Head(paths) \notin removable THEN <<>>
    ELSE <<Head(paths)>> \o RemoveEach_abort(Tail(paths), removable)

\* the removal loop of both policies over the paths selected: a path whose
\* os.Remove succeeds is appended to removed, a failure is logged and the
\* loop goes on with the next path
RemoveEach(paths, removable) == Select(paths, removable)

Range(seq) == {seq[i] : i \in 1..Len(seq)}

Min(a, b) == IF a <= b THEN a ELSE b

\* the files the walk finds older than the cutoff
Expired(tree, dir, maxAgeDays, flag) ==
    {p \in Range(Walk(tree, dir, dir, flag)) : BeforeCutoff(tree[p].age, maxAgeDays)}

RECURSIVE SortStrings(_)
\* sort.Strings over paths: by the first name that differs, a prefix first
PathLess(p, q) ==
    \E i \in 1..Len(q) :
        /\ \A j \in 1..(i - 1) : j <= Len(p) /\ p[j] = q[j]
        /\ \/ i > Len(p)
           \/ i <= Len(p) /\ Rank(p[i]) < Rank(q[i])

SortStrings(S) ==
    IF S = {} THEN <<>>
    ELSE LET first == CHOOSE p \in S : \A q \in S \ {p} : PathLess(p, q)
         IN  <<first>> \o SortStrings(S \ {first})

ErrorLine(p) == [level |-> "ERROR", text |-> "Failed to remove file", path |-> <<p>>, n |-> 0]

RECURSIVE ErrorLines(_)
ErrorLines(paths) ==
    IF paths = <<>> THEN <<>> ELSE <<ErrorLine(Head(paths))>> \o ErrorLines(Tail(paths))

RECURSIVE PathLines(_)
PathLines(paths) ==
    IF paths = <<>> THEN <<>>
    ELSE <<[level |-> "SUMMARY", text |-> "  - ", path |-> <<Head(paths)>>, n |-> 0]>>
         \o PathLines(Tail(paths))

\* as logRemovals, were the paths reported in the order of their removal
logRemovals_unsorted(removedPaths) ==
    IF Len(removedPaths) = 0
    THEN <<[level |-> "SUMMARY", text |-> "No files removed", path |-> <<>>, n |-> 0]>>
    ELSE <<[level |-> "SUMMARY", text |-> "Removed files", path |-> <<>>,
            n |-> Len(removedPaths)]>>
         \o PathLines(removedPaths)

\* logRemovals(files, operation)
logRemovals(removedPaths) ==
    IF Len(removedPaths) = 0
    THEN <<[level |-> "SUMMARY", text |-> "No files removed", path |-> <<>>, n |-> 0]>>
    ELSE <<[level |-> "SUMMARY", text |-> "Removed files", path |-> <<>>,
            n |-> Len(removedPaths)]>>
         \o PathLines(SortStrings(Range(removedPaths)))

HousekeepFilesByAge(dir, maxAgeDays, recursive) ==
    /\ hkPc \in {"idle", "returned"}
    /\ hkPc' = "returned"
    /\ hkCall' = [op |-> "age", dir |-> dir, max |-> maxAgeDays, recursive |-> recursive]
    /\ hkTree0' = hkTree
    /\ UNCHANGED <<hkLocked, hkSorted>>
    /\ IF InvalidAge(maxAgeDays)
       THEN /\ hkResult' = "invalid"
            /\ hkRemoved' = <<>>
            /\ hkLog' = <<>>
            /\ UNCHANGED hkTree
       ELSE IF IsNotExist(hkTree, dir)
       THEN /\ hkResult' = "notexist"
            /\ hkRemoved' = <<>>
            /\ hkLog' = <<>>
            /\ UNCHANGED hkTree
       ELSE LET flag    == RecursiveFlag(recursive)
                visited == Walk(hkTree, dir, dir, flag)
                expired == Expired(hkTree, dir, maxAgeDays, flag)
                chosen  == Select(visited, expired)
                removed == RemoveEach(chosen, expired \ hkLocked)
                failed  == Select(chosen, expired \cap hkLocked)
            IN  /\ hkTree' = Without(hkTree, Range(removed))
                /\ hkRemoved' = removed
                /\ hkLog' = ErrorLines(failed) \o logRemovals(removed)
                /\ hkResult' = "ok"

----------------------------------------------------------------------------
(* HousekeepFilesByCount *)

\* maxFiles < 0
InvalidCount(maxFiles) == maxFiles < 0

\* the bound of the removal loop: i < len(files)-maxFiles
Excess(n, maxFiles) == n - maxFiles

\* os.Remove(p): a regular file is unlinked, a directory removed when it is
\* empty; the removal of a locked path fails
Removable(tree, locked, p) ==
    /\ p \notin locked
    /\ tree[p].dir => Entries(tree, p) = {}

RECURSIVE OldestFirst(_, _)
\* sort.Slice by ModTime, oldest first: the orders of the entries S in which
\* no entry comes before an older one (the sort is not stable, so entries of
\* the same modification time may come out in any order)
OldestFirst(tree, S) ==
    IF S = {} THEN {<<>>}
    ELSE UNION {{<<p>> \o rest : rest \in OldestFirst(tree, S \ {p})} :
                    p \in {q \in S : \A r \in S : tree[q].age >= tree[r].age}}

\* sort.Slice(files, less) on a listing: one of the orders its contract
\* allows, and the same one whenever it is given the same listing again (the
\* sort draws on nothing but its input)
SortSlice(tree, listing, last) ==
    IF listing = last.listing THEN {last.order} ELSE OldestFirst(tree, Range(listing))

HousekeepFilesByCount(dir, maxFiles) ==
    /\ hkPc \in {"idle", "returned"}
    /\ hkPc' = "returned"
    /\ hkCall' = [op |-> "count", dir |-> dir, max |-> maxFiles, recursive |-> <<>>]
    /\ hkTree0' = hkTree
    /\ UNCHANGED hkLocked
    /\ IF InvalidCount(maxFiles)
       THEN /\ hkResult' = "invalid"
            /\ hkRemoved' = <<>>
            /\ hkLog' = <<>>
            /\ UNCHANGED <<hkTree, hkSorted>>
       ELSE IF IsNotExist(hkTree, dir)
       THEN /\ hkResult' = "notexist"
            /\ hkRemoved' = <<>>
            /\ hkLog' = <<>>
            /\ UNCHANGED <<hkTree, hkSorted>>
       ELSE IF dir \notin DOMAIN hkTree \/ ~hkTree[dir].dir
       THEN /\ hkResult' = "readdir"
            /\ hkRemoved' = <<>>
            /\ hkLog' = <<>>
            /\ UNCHANGED <<hkTree, hkSorted>>
       ELSE LET listing == ReadDir(hkTree, dir)
            IN  IF Len(listing) <= maxFiles
                THEN /\ hkResult' = "ok"
                     /\ hkLog' = <<[level |-> "INFO", text |-> "No files to remove",
                                    path |-> <<>>, n |-> Len(listing)]>>
                     /\ hkRemoved' = <<>>
                     /\ UNCHANGED <<hkTree, hkSorted>>
                ELSE \E order \in SortSlice(hkTree, listing, hkSorted) :
                        /\ hkSorted' = [listing |-> listing, order |-> order]
                        /\ LET doomed  == SubSeq(order, 1, Excess(Len(listing), maxFiles))
                               gone    == {p \in Range(doomed) : Removable(hkTree, hkLocked, p)}
                               removed == RemoveEach(doomed, gone)
                               failed  == Select(doomed, Range(doomed) \ gone)
                           IN  /\ hkTree' = Without(hkTree, Range(removed))
                               /\ hkRemoved' = removed
                               /\ hkLog' = ErrorLines(failed) \o logRemovals(removed)
                               /\ hkResult' = "ok"

----------------------------------------------------------------------------
(* Logger.  The log file is a sequence of characters; "ts" stands for the  *)
(* bracketed timestamp of a line and the name of a level for the bracketed *)
(* level.                                                                  *)

MaxCalls == 3

Levels == {"INFO", "WARNING", "ERROR", "SUMMARY"}

\* the messages given to the Logger, formatted: one of a single line, and one
\* that holds a newline
Messages == {<<"m">>, <<"m", "LF", "n">>}

\* what the log file of the day holds when NewLogger opens it with O_APPEND
EarlierLog == <<"ts", "INFO", "m", "LF">>

\* formattedMsg := fmt.Sprintf("[%s] [%s] %s\n", timestamp, level, message)
FormattedMsg(level, message) == <<"ts", level>> \o message \o <<"LF">>

\* as WriteString, were the handle not looked at
WriteString_anyHandle(handle, content, s) == content \o s

\* l.logFile.WriteString(s): s is appended to the file; on a closed handle the
\* write fails, and the error is not looked at
WriteString(handle, content, s) == IF handle = "closed" THEN content ELSE content \o s

\* Logger.log(level, format, args...): the line goes to stdout and to the file
log(level, message) ==
    /\ Len(logCalls) < MaxCalls
    /\ stdout' = stdout \o FormattedMsg(level, message)
    /\ logDisk' = WriteString(logFile, logDisk, FormattedMsg(level, message))
    /\ logCalls' = Append(logCalls, [level |-> level, message |-> message,
                                     open |-> logFile = "open"])
    /\ UNCHANGED logFile

Info(message) == log("INFO", message)

Error(message) == log("ERROR", message)

Warning(message) == log("WARNING", message)

Summary(message) == log("SUMMARY", message)

\* Logger.Close(): l.logFile stays non-nil and is closed
Close ==
    /\ logFile' = "closed"
    /\ UNCHANGED <<logDisk, stdout, logCalls>>

\* the Logger as NewLogger returns it
LogAtRest ==
    /\ logFile = "open"
    /\ logDisk = EarlierLog
    /\ stdout = <<>>
    /\ logCalls = <<>>

----------------------------------------------------------------------------
(* Specification of SplitFileByLines: a call, and the same call once more *)

\* a path at which there is no file
AbsentPath == [dir |-> "in", base |-> "absent", parts |-> <<>>, ext |-> ".csv"]

FilePaths == {SourcePath, AbsentPath, EmptyPath}

LinesPerFile == (-1)..MaxLinesPerFile

OutputDirs == {"out", "in", ""}

ProcessedDirs == {"proc", "in", ""}

\* the housekeeper has not been called
HkAtRest ==
    /\ hkTree = [p \in {Root} |-> Node(TRUE, 0)]
    /\ hkLocked = {}
    /\ hkPc = "idle"
    /\ hkCall = [op |-> "none", dir |-> Root, max |-> 0, recursive |-> <<>>]
    /\ hkResult = "none"
    /\ hkRemoved = <<>>
    /\ hkTree0 = hkTree
    /\ hkLog = <<>>
    /\ hkRepeated = FALSE
    /\ hkFirst = [result |-> "none", removed |-> <<>>, log |-> <<>>]
    /\ hkSorted = [listing |-> <<>>, order |-> <<>>]

IoFaults ==
    {"mkdirOutput", "mkdirProcessed", "open", "stat", "flush", "create", "write", "spill",
     "read", "rename"}

\* the contents without "\r": lines of "a" ended by "\n" or unterminated
PlainContents == {c \in Contents : \A i \in 1..Len(c) : c[i] \in {"a", "LF"}}

InitSplitCommon ==
    /\ dirs = {"in"}
    /\ pc = "idle"
    /\ args = [filePath |-> EmptyPath, linesPerFile |-> 0, outputDir |-> "",
               processedDir |-> ""]
    /\ scanBuf = <<>>
    /\ linesCount = 0
    /\ fileCount = 1
    /\ outputFile = <<>>
    /\ writerBuf = <<>>
    /\ srcOpen = FALSE
    /\ result = "none"
    /\ fs0 = [files |-> files, dirs |-> dirs]
    /\ created = <<>>
    /\ opened = FALSE
    /\ openParts = {}
    /\ injected = {}
    /\ repeated = FALSE
    /\ prevResult = "none"
    /\ prevMade = <<>>
    /\ HkAtRest
    /\ LogAtRest

\* every I/O operation succeeds (the source may still be missing)
InitSplit ==
    /\ \E c \in Contents : files = [p \in {SourcePath} |-> c]
    /\ InitSplitCommon
    /\ faults = {}

\* any I/O operation may fail
InitSplitFaulty ==
    /\ \E c \in PlainContents : files = [p \in {SourcePath} |-> c]
    /\ InitSplitCommon
    /\ faults = IoFaults

\* the first call
SplitCall ==
    /\ pc = "idle"
    /\ \E f \in FilePaths, n \in LinesPerFile, o \in OutputDirs, d \in ProcessedDirs :
        \E io \in Outcomes({"mkdirOutput", "mkdirProcessed", "open", "stat"}) :
            SplitBegin(f, n, o, d, io)
    /\ UNCHANGED <<repeated, prevResult, prevMade>>

\* the caller makes the same call a second time, once the first has returned
SplitRepeat ==
    /\ pc = "returned"
    /\ ~repeated
    /\ repeated' = TRUE
    /\ prevResult' = result
    /\ UNCHANGED prevMade
    /\ \E io \in Outcomes({"mkdirOutput", "mkdirProcessed", "open", "stat"}) :
            SplitBegin(args.filePath, args.linesPerFile, args.outputDir, args.processedDir, io)

SplitLoop ==
    /\ \E io \in Outcomes({"flush", "create", "write", "spill"}) : SplitLine(io)
    /\ UNCHANGED <<repeated, prevResult, prevMade>>

SplitFinish ==
    /\ \E io \in Outcomes({"read", "flush", "rename"}) : SplitEnd(io)
    /\ UNCHANGED <<repeated, prevResult, prevMade>>

NextSplit ==
    \/ SplitCall /\ UNCHANGED <<hkVars, logVars>>
    \/ SplitRepeat /\ UNCHANGED <<hkVars, logVars>>
    \/ SplitLoop /\ UNCHANGED <<hkVars, logVars>>
    \/ SplitFinish /\ UNCHANGED <<hkVars, logVars>>

SpecSplit == InitSplit /\ [][NextSplit]_vars

SpecSplitFaulty == InitSplitFaulty /\ [][NextSplit]_vars

----------------------------------------------------------------------------
(* Specification of SplitFileByLines: one call on a source that may hold    *)
(* long lines                                                               *)

\* the contents made of "a", of runs of MaxScanTokenSize "a" and of "\n"
LongContents ==
    {[i \in 1..Len(c) |-> IF c[i] = "b" THEN LongRun ELSE c[i]] :
        c \in {d \in Contents : \A i \in 1..Len(d) : d[i] # "CR"}}

\* every I/O operation succeeds
InitSplitLong ==
    /\ \E c \in LongContents : files = [p \in {SourcePath} |-> c]
    /\ InitSplitCommon
    /\ faults = {}

NextSplitOnce ==
    \/ SplitCall /\ UNCHANGED <<hkVars, logVars>>
    \/ SplitLoop /\ UNCHANGED <<hkVars, logVars>>
    \/ SplitFinish /\ UNCHANGED <<hkVars, logVars>>

SpecSplitLong == InitSplitLong /\ [][NextSplitOnce]_vars

----------------------------------------------------------------------------
(* Specification of SplitFileByLines: a call, and then a call on another   *)
(* source with the same outputDir and processedDir                         *)

\* another source of the same base name, in another directory
SameNamePath == [dir |-> "in2", base |-> "data", parts |-> <<>>, ext |-> ".csv"]

\* another source of another base name, in the same directory
OtherNamePath == [dir |-> "in", base |-> "more", parts |-> <<>>, ext |-> ".csv"]

OtherPaths == {SameNamePath, OtherNamePath}

\* the three sources exist; every I/O operation succeeds
InitSplitSeq ==
    /\ \E c \in PlainContents :
            files = [p \in {SourcePath} \cup OtherPaths |->
                        IF p = SourcePath THEN c
                        ELSE IF p = SameNamePath THEN <<"b", "LF">>
                        ELSE <<"b", "LF", "b", "LF">>]
    /\ dirs = {"in", "in2"}
    /\ pc = "idle"
    /\ args = [filePath |-> EmptyPath, linesPerFile |-> 0, outputDir |-> "",
               processedDir |-> ""]
    /\ scanBuf = <<>>
    /\ linesCount = 0
    /\ fileCount = 1
    /\ outputFile = <<>>
    /\ writerBuf = <<>>
    /\ srcOpen = FALSE
    /\ result = "none"
    /\ fs0 = [files |-> files, dirs |-> dirs]
    /\ created = <<>>
    /\ opened = FALSE
    /\ openParts = {}
    /\ faults = {}
    /\ injected = {}
    /\ repeated = FALSE
    /\ prevResult = "none"
    /\ prevMade = <<>>
    /\ HkAtRest
    /\ LogAtRest

\* the files the call that has returned made: its parts and the archived source
Made ==
    LET made == {p \in Range(created) \cup {ProcessedPath(args.processedDir, args.filePath)} :
                    Exists(files, p)}
    IN  [p \in made |-> files[p]]

\* after a call that succeeded the caller splits another source, with the
\* same linesPerFile, outputDir and processedDir
SplitOther ==
    /\ pc = "returned"
    /\ result = "ok"
    /\ prevMade = <<>>
    /\ prevMade' = Made
    /\ \E f \in OtherPaths :
        \E io \in Outcomes({"mkdirOutput", "mkdirProcessed", "open", "stat"}) :
            SplitBegin(f, args.linesPerFile, args.outputDir, args.processedDir, io)
    /\ UNCHANGED <<repeated, prevResult>>

NextSplitSeq ==
    \/ SplitCall /\ UNCHANGED <<hkVars, logVars>>
    \/ SplitOther /\ UNCHANGED <<hkVars, logVars>>
    \/ SplitLoop /\ UNCHANGED <<hkVars, logVars>>
    \/ SplitFinish /\ UNCHANGED <<hkVars, logVars>>

SpecSplitSeq == InitSplitSeq /\ [][NextSplitSeq]_vars

----------------------------------------------------------------------------
(* Specification of the housekeeper: a call, and the same call once more *)

Merge(f, g) == [x \in (DOMAIN f) \cup (DOMAIN g) |-> IF x \in DOMAIN f THEN f[x] ELSE g[x]]

One(p, node) == [q \in {p} |-> node]

NoNodes == [q \in {} |-> Node(FALSE, 0)]

\* what may be below the root beside its files: nothing, or the directory s
\* with or without the file g, with or without the directory t and its file h
SubTrees ==
    {NoNodes} \cup
    {Merge(One(SubDir, Node(TRUE, sAge)), Merge(g, deep)) :
        sAge \in DirAges,
        g \in {NoNodes} \cup {One(SubFile, Node(FALSE, a)) : a \in {0, 25}},
        deep \in {NoNodes, Merge(One(DeepDir, Node(TRUE, 0)), One(DeepFile, Node(FALSE, 25)))}}

Trees ==
    {Merge(One(Root, Node(TRUE, 0)), Merge([f \in P |-> Node(FALSE, age[f])], sub)) :
        P \in SUBSET RootFiles, age \in [RootFiles -> Ages], sub \in SubTrees}

\* the splitter has not been called
SplitAtRest ==
    /\ files = [p \in {SourcePath} |-> <<>>]
    /\ dirs = {"in"}
    /\ pc = "idle"
    /\ args = [filePath |-> EmptyPath, linesPerFile |-> 0, outputDir |-> "",
               processedDir |-> ""]
    /\ scanBuf = <<>>
    /\ linesCount = 0
    /\ fileCount = 1
    /\ outputFile = <<>>
    /\ writerBuf = <<>>
    /\ srcOpen = FALSE
    /\ result = "none"
    /\ fs0 = [files |-> files, dirs |-> dirs]
    /\ created = <<>>
    /\ opened = FALSE
    /\ openParts = {}
    /\ faults = {}
    /\ injected = {}
    /\ repeated = FALSE
    /\ prevResult = "none"
    /\ prevMade = <<>>

InitHkCommon ==
    /\ hkTree \in Trees
    /\ hkPc = "idle"
    /\ hkCall = [op |-> "none", dir |-> Root, max |-> 0, recursive |-> <<>>]
    /\ hkResult = "none"
    /\ hkRemoved = <<>>
    /\ hkTree0 = hkTree
    /\ hkLog = <<>>
    /\ hkRepeated = FALSE
    /\ hkFirst = [result |-> "none", removed |-> <<>>, log |-> <<>>]
    /\ hkSorted = [listing |-> <<>>, order |-> <<>>]
    /\ SplitAtRest
    /\ LogAtRest

\* every os.Remove of a path that may be removed succeeds
InitHk ==
    /\ InitHkCommon
    /\ hkLocked = {}

\* at most one path is such that its os.Remove fails
InitHkFaulty ==
    /\ InitHkCommon
    /\ hkLocked \in {{}} \cup {{p} : p \in (DOMAIN hkTree) \ {Root}}

HkDirs == {Root, Missing}

RecursiveArgs == {<<>>, <<FALSE>>, <<TRUE>>}

MaxFilesValues == (-1)..(MaxRootFiles + 1)

\* the first call
AgeCall ==
    /\ hkPc = "idle"
    /\ \E dir \in HkDirs, m \in MaxAgeDaysValues, r \in RecursiveArgs :
        HousekeepFilesByAge(dir, m, r)
    /\ UNCHANGED <<hkRepeated, hkFirst>>

CountCall ==
    /\ hkPc = "idle"
    /\ \E dir \in HkDirs, m \in MaxFilesValues : HousekeepFilesByCount(dir, m)
    /\ UNCHANGED <<hkRepeated, hkFirst>>

\* the caller makes the same call a second time, nothing else having touched
\* the directory and the clock held where it was
HkRepeat ==
    /\ hkPc = "returned"
    /\ ~hkRepeated
    /\ hkRepeated' = TRUE
    /\ hkFirst' = [result |-> hkResult, removed |-> hkRemoved, log |-> hkLog]
    /\ IF hkCall.op = "age"
       THEN HousekeepFilesByAge(hkCall.dir, hkCall.max, hkCall.recursive)
       ELSE HousekeepFilesByCount(hkCall.dir, hkCall.max)

NextHk ==
    \/ AgeCall /\ UNCHANGED <<splitVars, logVars>>
    \/ CountCall /\ UNCHANGED <<splitVars, logVars>>
    \/ HkRepeat /\ UNCHANGED <<splitVars, logVars>>

SpecHk == InitHk /\ [][NextHk]_vars

\* one call, without a second one
NextHkOnce ==
    \/ AgeCall /\ UNCHANGED <<splitVars, logVars>>
    \/ CountCall /\ UNCHANGED <<splitVars, logVars>>

SpecHkFaulty == InitHkFaulty /\ [][NextHkOnce]_vars

----------------------------------------------------------------------------
(* Specification of the housekeeper: one call, on a path that may be a     *)
(* directory, a regular file, or nothing                                   *)

HkPaths == {Root, Root \o <<RootFileNames[1]>>, SubDir, Missing}

AgeCallOnPath ==
    /\ hkPc = "idle"
    /\ \E dir \in HkPaths, m \in MaxAgeDaysValues, r \in RecursiveArgs :
        HousekeepFilesByAge(dir, m, r)
    /\ UNCHANGED <<hkRepeated, hkFirst>>

CountCallOnPath ==
    /\ hkPc = "idle"
    /\ \E dir \in HkPaths, m \in MaxFilesValues : HousekeepFilesByCount(dir, m)
    /\ UNCHANGED <<hkRepeated, hkFirst>>

NextHkPath ==
    \/ AgeCallOnPath /\ UNCHANGED <<splitVars, logVars>>
    \/ CountCallOnPath /\ UNCHANGED <<splitVars, logVars>>

SpecHkPath == InitHk /\ [][NextHkPath]_vars

----------------------------------------------------------------------------
(* Specification of the Logger: calls of the four levels, and Close *)

InitLog ==
    /\ LogAtRest
    /\ SplitAtRest
    /\ HkAtRest

NextLog ==
    \/ (\E m \in Messages : Info(m)) /\ UNCHANGED <<splitVars, hkVars>>
    \/ (\E m \in Messages : Warning(m)) /\ UNCHANGED <<splitVars, hkVars>>
    \/ (\E m \in Messages : Error(m)) /\ UNCHANGED <<splitVars, hkVars>>
    \/ (\E m \in Messages : Summary(m)) /\ UNCHANGED <<splitVars, hkVars>>
    \/ Close /\ UNCHANGED <<splitVars, hkVars>>

SpecLog == InitLog /\ [][NextLog]_vars

----------------------------------------------------------------------------
(* What the claims speak of, stated without the code's scanner *)

RECURSIVE LinesOf(_, _, _, _)
\* The lines of data read byte by byte from position i: a "\n" ends the line
\* being collected in cur, and one "\r" before it belongs to the terminator.
\* An unterminated last line is taken as it stands when lastVerbatim holds,
\* and without one trailing "\r" otherwise.
LinesOf(data, i, cur, lastVerbatim) ==
    IF i > Len(data)
    THEN IF cur = <<>> THEN <<>>
         ELSE IF ~lastVerbatim /\ cur[Len(cur)] = "CR"
         THEN <<SubSeq(cur, 1, Len(cur) - 1)>>
         ELSE <<cur>>
    ELSE IF data[i] = "LF"
    THEN <<IF cur # <<>> /\ cur[Len(cur)] = "CR" THEN SubSeq(cur, 1, Len(cur) - 1) ELSE cur>>
         \o LinesOf(data, i + 1, <<>>, lastVerbatim)
    ELSE LinesOf(data, i + 1, Append(cur, data[i]), lastVerbatim)

RECURSIVE WithNewlines(_)
\* every line followed by a single "\n"
WithNewlines(lines) ==
    IF lines = <<>> THEN <<>> ELSE Head(lines) \o <<"LF">> \o WithNewlines(Tail(lines))

RECURSIVE ConcatParts(_, _)
\* the part files part<i>, part<i+1>, ... of the call, concatenated
ConcatParts(fs, i) ==
    IF Exists(fs, OutputPath(args.outputDir, args.filePath, i))
    THEN fs[OutputPath(args.outputDir, args.filePath, i)] \o ConcatParts(fs, i + 1)
    ELSE <<>>

\* number of "\n" in a content: the lines a part file holds
CountLines(c) == Cardinality({i \in 1..Len(c) : c[i] = "LF"})

CeilDiv(n, p) == (n + p - 1) \div p

SourceContent == fs0.files[args.filePath]

SourceLineCount == Len(LinesOf(SourceContent, 1, <<>>, TRUE))

Succeeded == pc = "returned" /\ result = "ok"

\* the files the call made: those that exist now and did not when the call
\* was made, and those it created anew over a file of that name, the archived
\* source aside
NewFiles ==
    (((DOMAIN files) \ (DOMAIN fs0.files)) \cup {p \in Range(created) : Exists(files, p)})
        \ {ProcessedPath(args.processedDir, args.filePath)}

----------------------------------------------------------------------------
(* C1 *)

\* C1 as claimed: after a successful split the part files concatenated in
\* index order are the source's lines, each followed by one "\n", the
\* unterminated last line taken as it stands.
C1_AsClaimed ==
    Succeeded =>
        ConcatParts(files, 1) = WithNewlines(LinesOf(SourceContent, 1, <<>>, TRUE))

\* C1 amended: after a successful split the part files concatenated in index
\* order are the source's lines in their order, each followed by one "\n",
\* where a line ends at "\n" or "\r\n" and an unterminated last line loses
\* one trailing "\r" if it has one.
C1_Concatenation ==
    Succeeded =>
        ConcatParts(files, 1) = WithNewlines(LinesOf(SourceContent, 1, <<>>, FALSE))

\* a successful split into two parts or more of a source that has a "\r\n"
\* terminator and an unterminated last line
C1_Witness ==
    /\ Succeeded
    /\ Len(created) >= 2
    /\ \E i \in 1..(Len(SourceContent) - 1) :
            SourceContent[i] = "CR" /\ SourceContent[i + 1] = "LF"
    /\ SourceContent[Len(SourceContent)] \notin {"LF", "CR"}

----------------------------------------------------------------------------
(* C2 *)

\* C2: a successful split of a source of N lines creates exactly ceil(N/P)
\* files, all of them in outputDir: none when N = 0, and one that holds all N
\* lines when P >= N > 0.
C2_PartCount ==
    Succeeded =>
        /\ Cardinality(NewFiles) = CeilDiv(SourceLineCount, args.linesPerFile)
        /\ \A p \in NewFiles : p.dir = args.outputDir
        /\ SourceLineCount = 0 => NewFiles = {}
        /\ (args.linesPerFile >= SourceLineCount /\ SourceLineCount > 0) =>
                \E p \in NewFiles : NewFiles = {p} /\ CountLines(files[p]) = SourceLineCount

\* a successful split of three lines or more into more than one part, the
\* last one short
C2_Witness ==
    /\ Succeeded
    /\ SourceLineCount >= 3
    /\ args.linesPerFile = 2
    /\ Cardinality(NewFiles) = 2

----------------------------------------------------------------------------
(* C3 *)

\* C3: after a successful split every part file holds between 1 and P lines,
\* every part but the last holds exactly P, and the last holds N mod P lines,
\* or P when P divides N.
C3_PartSizes ==
    Succeeded =>
        \A i \in 1..Len(created) :
            LET n == CountLines(files[created[i]])
                P == args.linesPerFile
            IN  /\ 1 <= n /\ n <= P
                /\ i < Len(created) => n = P
                /\ i = Len(created) =>
                        n = IF SourceLineCount % P = 0 THEN P ELSE SourceLineCount % P

\* a successful split whose last part is shorter than the part before it
C3_Witness ==
    /\ Succeeded
    /\ Len(created) >= 2
    /\ CountLines(files[created[Len(created)]]) < args.linesPerFile

----------------------------------------------------------------------------
(* C4 *)

\* C4 as claimed: after a successful split the source is at
\* processedDir/<base name> and nothing is left at the source path.
C4_AsClaimed ==
    Succeeded =>
        /\ Exists(files, ProcessedPath(args.processedDir, args.filePath))
        /\ ~Exists(files, args.filePath)

\* C4 amended: after a successful split the source, with its content, is at
\* processedDir/<base name>; nothing is left at the source path provided
\* processedDir is not the directory the source is in.
C4_Relocated ==
    Succeeded =>
        /\ Exists(files, ProcessedPath(args.processedDir, args.filePath))
        /\ files[ProcessedPath(args.processedDir, args.filePath)] = SourceContent
        /\ args.processedDir # args.filePath.dir => ~Exists(files, args.filePath)

\* a successful split that wrote a part file and moved the source into
\* another directory
C4_Witness ==
    /\ Succeeded
    /\ created # <<>>
    /\ args.processedDir # args.filePath.dir
    /\ Exists(files, ProcessedPath(args.processedDir, args.filePath))
    /\ ~Exists(files, args.filePath)

----------------------------------------------------------------------------
(* C10 *)

\* C10: a call with linesPerFile <= 0 or with an empty filePath, outputDir
\* or processedDir returns an error and leaves the file system as it was:
\* no directory created, no part file written, the source neither opened nor
\* moved.
C10_InvalidArguments ==
    (/\ pc = "returned"
     /\ \/ args.linesPerFile <= 0
        \/ args.filePath = EmptyPath
        \/ args.outputDir = ""
        \/ args.processedDir = "")
    => /\ result \notin {"none", "ok"}
       /\ files = fs0.files
       /\ dirs = fs0.dirs
       /\ created = <<>>
       /\ ~opened

\* a call with a positive linesPerFile and an empty outputDir has returned
C10_Witness ==
    /\ pc = "returned"
    /\ args.linesPerFile > 0
    /\ args.filePath # EmptyPath
    /\ args.outputDir = ""
    /\ args.processedDir # ""
    /\ result = "invalid"

----------------------------------------------------------------------------
(* What the housekeeper's claims speak of *)

HkReturned(op) == hkPc = "returned" /\ hkCall.op = op

HkSucceeded(op) == HkReturned(op) /\ hkResult = "ok"

IsUnder(p, dir) == Len(p) > Len(dir) /\ SubSeq(p, 1, Len(dir)) = dir

\* the regular files directly in dir
FilesIn(tree, dir) == {p \in DOMAIN tree : ~tree[p].dir /\ Len(p) = Len(dir) + 1 /\ IsUnder(p, dir)}

\* the regular files at any depth below dir
FilesBelow(tree, dir) == {p \in DOMAIN tree : ~tree[p].dir /\ IsUnder(p, dir)}

\* the regular files an age-based call is to consider
InScope(tree, dir, recursive) ==
    IF recursive = <<TRUE>> THEN FilesBelow(tree, dir) ELSE FilesIn(tree, dir)

\* the paths the log reports as not removed
FailedPaths == {hkLog[i].path[1] : i \in {j \in 1..Len(hkLog) : hkLog[j].level = "ERROR"}}

----------------------------------------------------------------------------
(* C5 *)

\* C5 as claimed: after HousekeepFilesByCount(dir, maxFiles) exactly
\* min(originalCount, maxFiles) files remain in dir, none of them older than
\* a file that was deleted, and nothing is deleted when originalCount <=
\* maxFiles.
C5_AsClaimed ==
    HkSucceeded("count") =>
        LET before == FilesIn(hkTree0, hkCall.dir)
            after  == FilesIn(hkTree, hkCall.dir)
        IN  /\ after \subseteq before
            /\ Cardinality(after) = Min(Cardinality(before), hkCall.max)
            /\ \A k \in after, g \in before \ after : hkTree0[k].age <= hkTree0[g].age
            /\ Cardinality(before) <= hkCall.max => hkTree = hkTree0

----------------------------------------------------------------------------
(* C6 *)

\* C6 as claimed: after a successful HousekeepFilesByAge(dir, maxAgeDays,
\* recursive) every file removed was modified more than maxAgeDays*24 hours
\* before the call, and every file in scope that is still there was modified
\* maxAgeDays*24 hours before the call or later.
C6_AsClaimed ==
    HkSucceeded("age") =>
        /\ \A p \in Range(hkRemoved) : hkTree0[p].age > hkCall.max * 24
        /\ \A p \in DOMAIN hkTree0 \ DOMAIN hkTree : hkTree0[p].age > hkCall.max * 24
        /\ \A p \in InScope(hkTree0, hkCall.dir, hkCall.recursive) \cap DOMAIN hkTree :
                hkTree0[p].age <= hkCall.max * 24

----------------------------------------------------------------------------
(* C7 *)

\* C7: when HousekeepFilesByAge is called with recursive false or omitted,
\* only regular files directly inside dir are removed: every directory and
\* every file below a subdirectory is still there, unchanged, whatever its
\* age.
C7_NonRecursiveFrame ==
    (HkReturned("age") /\ hkCall.recursive \in {<<>>, <<FALSE>>}) =>
        /\ \A p \in DOMAIN hkTree0 :
                p \notin FilesIn(hkTree0, hkCall.dir) =>
                    p \in DOMAIN hkTree /\ hkTree[p] = hkTree0[p]
        /\ Range(hkRemoved) \subseteq FilesIn(hkTree0, hkCall.dir)

\* a non-recursive call has removed a file of dir and left in place a file of
\* a subdirectory that is as old
C7_Witness ==
    /\ HkSucceeded("age")
    /\ hkCall.recursive \in {<<>>, <<FALSE>>}
    /\ hkRemoved # <<>>
    /\ DeepFile \in DOMAIN hkTree
    /\ \E p \in Range(hkRemoved) : hkTree0[p].age <= hkTree0[DeepFile].age

----------------------------------------------------------------------------
(* C8 *)

\* C8 as claimed: after HousekeepFilesByAge with recursive true every regular
\* file of the subtree modified more than maxAgeDays*24 hours before the call
\* is gone, every other one is kept, and every directory is kept.
C8_AsClaimed ==
    (HkSucceeded("age") /\ hkCall.recursive = <<TRUE>>) =>
        /\ \A p \in FilesBelow(hkTree0, hkCall.dir) :
                p \in DOMAIN hkTree <=> hkTree0[p].age <= hkCall.max * 24
        /\ \A p \in DOMAIN hkTree0 : hkTree0[p].dir => p \in DOMAIN hkTree

----------------------------------------------------------------------------
(* C9 *)

\* C9: in both policies a call on an existing directory with a valid limit
\* returns success even when an os.Remove fails, and the failure does not
\* end the loop: every path selected is attempted, each one logged as failed
\* or removed, and every path selected whose removal can succeed is gone.
C9_BestEffort ==
    (hkPc = "returned" /\ hkCall.dir \in DOMAIN hkTree0 /\ hkCall.max >= 0) =>
        /\ hkResult = "ok"
        /\ FailedPaths \subseteq DOMAIN hkTree
        /\ Range(hkRemoved) \cap DOMAIN hkTree = {}
        /\ hkCall.op = "age" =>
                Range(hkRemoved) \cup FailedPaths =
                    {p \in InScope(hkTree0, hkCall.dir, hkCall.recursive) :
                        BeforeCutoff(hkTree0[p].age, hkCall.max)}
        /\ hkCall.op = "count" =>
                LET n == Cardinality(Entries(hkTree0, hkCall.dir))
                IN  /\ Cardinality(Range(hkRemoved) \cup FailedPaths)
                            = IF n > hkCall.max THEN n - hkCall.max ELSE 0
                    /\ \A p \in FailedPaths :
                            p \in hkLocked \/ Entries(hkTree0, p) # {}

\* a call has failed to remove a file, has removed another file that the walk
\* or the ranking reaches after it, and has returned success
C9_Witness ==
    /\ hkPc = "returned"
    /\ hkResult = "ok"
    /\ \E p \in FailedPaths, q \in Range(hkRemoved) :
            /\ p \in hkLocked
            /\ ~hkTree0[p].dir
            /\ Parent(p) = Parent(q)
            /\ Rank(p[Len(p)]) < Rank(q[Len(q)])
            /\ hkTree0[p].age > hkTree0[q].age

----------------------------------------------------------------------------
(* C11 *)

\* C11 as claimed: when the source is missing or cannot be opened the call
\* returns an error and the file system is as it was before the call: no
\* directory created, no part file, nothing moved.
C11_AsClaimed ==
    (pc = "returned" /\ result = "open") =>
        /\ files = fs0.files
        /\ dirs = fs0.dirs
        /\ created = <<>>

----------------------------------------------------------------------------
(* C12 *)

\* the lines of the source as the scanner yields them
SourceLines == LinesOf(SourceContent, 1, <<>>, FALSE)

\* the lines that belong to part i
PartLines(i) ==
    SubSeq(SourceLines, (i - 1) * args.linesPerFile + 1,
           Min(i * args.linesPerFile, Len(SourceLines)))

\* the parts of the call that have been flushed and closed when it returned
\* the error: every part created but the one being written
ClosedParts ==
    IF result = "create" THEN 1..Len(created) ELSE 1..(Len(created) - 1)

RECURSIVE LinesOnDisk(_)
\* the number of lines in the part files created[1..k] as they are on disk
LinesOnDisk(k) ==
    IF k = 0 THEN 0 ELSE CountLines(files[created[k]]) + LinesOnDisk(k - 1)

\* C12: when os.Create of a part, the write of a line or the read of the
\* source fails, the call returns an error having written none of the lines
\* after the failure; every part flushed and closed before is on disk with its
\* lines (unless its own flush failed, which the code does not look at); the
\* source is where it was, with its content, and no other file has changed.
C12_MidStreamFailure ==
    (pc = "returned" /\ result \in {"create", "write", "read"}) =>
        /\ Exists(files, args.filePath)
        /\ files[args.filePath] = SourceContent
        /\ \A p \in (DOMAIN fs0.files) \ Range(created) :
                Exists(files, p) /\ files[p] = fs0.files[p]
        /\ (DOMAIN files) \subseteq (DOMAIN fs0.files) \cup Range(created)
        /\ \A i \in 1..Len(created) : Exists(files, created[i])
        /\ LinesOnDisk(Len(created)) <= linesCount
        /\ linesCount < Len(SourceLines) \/ result = "read"
        /\ "flush" \notin injected =>
                \A i \in ClosedParts : files[created[i]] = WithNewlines(PartLines(i))

\* the write of a line has failed after two parts were flushed and closed,
\* and lines remain unread
C12_Witness ==
    /\ pc = "returned"
    /\ result = "write"
    /\ injected = {"write"}
    /\ Len(created) = 3
    /\ files[created[1]] # <<>>
    /\ files[created[2]] # <<>>
    /\ ScanLines(scanBuf).found

----------------------------------------------------------------------------
(* C13 *)

----------------------------------------------------------------------------
(* C14 *)

\* the second of two calls with the same arguments has returned, the first
\* having succeeded
SecondCallReturned == repeated /\ pc = "returned" /\ prevResult = "ok"

\* C14 as claimed: after a successful split a second call with the same
\* arguments returns an error, whatever outputDir and processedDir are.
C14_AsClaimed == SecondCallReturned => result \notin {"none", "ok"}

\* C14 amended: after a successful split a second call with the same
\* arguments fails to open the source and changes no file, provided
\* processedDir is not the directory the source is in; when it is, the source
\* has not moved and the second call splits it again and succeeds.
C14_SecondCall ==
    SecondCallReturned =>
        IF args.processedDir # args.filePath.dir
        THEN /\ result = "open"
             /\ files = fs0.files
             /\ dirs = fs0.dirs
        ELSE result = "ok"

\* the second call has failed after a first one that wrote a part and moved
\* the source away
C14_Witness ==
    /\ SecondCallReturned
    /\ result = "open"
    /\ Exists(files, OutputPath(args.outputDir, args.filePath, 1))
    /\ Exists(files, ProcessedPath(args.processedDir, args.filePath))
    /\ ~Exists(files, args.filePath)

----------------------------------------------------------------------------
(* C15 *)

\* C15 as claimed: when the call has returned, with success or with an
\* error, the handle of the source and the handle of every part file opened
\* during the call are closed.
C15_AsClaimed ==
    pc = "returned" => (~srcOpen /\ openParts = {})

----------------------------------------------------------------------------
(* C16 *)

\* C16: HousekeepFilesByAge and HousekeepFilesByCount, called on a dir that
\* does not exist, return an error and remove nothing.
C16_MissingDir ==
    (hkPc = "returned" /\ hkCall.dir \notin DOMAIN hkTree0) =>
        /\ hkResult \notin {"none", "ok"}
        /\ hkTree = hkTree0
        /\ hkRemoved = <<>>

\* a call with a valid limit on a dir that does not exist has returned, while
\* another directory holds a file a day old
C16_Witness ==
    /\ hkPc = "returned"
    /\ hkCall.dir = Missing
    /\ hkCall.max = 0
    /\ hkResult = "notexist"
    /\ \E p \in FilesIn(hkTree, Root) : hkTree[p].age >= 24

----------------------------------------------------------------------------
(* C17 *)

\* C17: HousekeepFilesByAge with maxAgeDays < 0 and HousekeepFilesByCount
\* with maxFiles < 0 return an error without having removed or logged
\* anything, whatever the directory holds.
C17_NegativeLimit ==
    (hkPc = "returned" /\ hkCall.max < 0) =>
        /\ hkResult = "invalid"
        /\ hkTree = hkTree0
        /\ hkRemoved = <<>>
        /\ hkLog = <<>>

\* a call with a negative limit has returned on a directory that exists and
\* holds files more than a day old and a subdirectory
C17_Witness ==
    /\ hkPc = "returned"
    /\ hkCall.max < 0
    /\ hkCall.dir = Root
    /\ \A p \in RootFiles : p \in DOMAIN hkTree /\ hkTree[p].age = 25
    /\ SubDir \in DOMAIN hkTree

----------------------------------------------------------------------------
(* C18 *)

\* C18 as claimed: HousekeepFilesByCount counts and ranks the regular files
\* directly inside dir only: no directory is removed, nothing below a
\* subdirectory is touched, and the number of files removed is the number of
\* regular files of dir above maxFiles.
C18_AsClaimed ==
    HkSucceeded("count") =>
        LET regular == FilesIn(hkTree0, hkCall.dir)
        IN  /\ \A p \in DOMAIN hkTree0 : hkTree0[p].dir => p \in DOMAIN hkTree
            /\ \A p \in (DOMAIN hkTree0) \ regular :
                    p \in DOMAIN hkTree /\ hkTree[p] = hkTree0[p]
            /\ Cardinality(regular \ DOMAIN hkTree) =
                    IF Cardinality(regular) > hkCall.max
                    THEN Cardinality(regular) - hkCall.max ELSE 0

----------------------------------------------------------------------------
(* C19 *)

\* the name <base>_part<i><ext> in outputDir, for the source of the call
PartName(i) ==
    [dir |-> args.outputDir, base |-> args.filePath.base, parts |-> <<i>>,
     ext |-> args.filePath.ext]

\* C19: after a successful split the part files are <base>_part<i><ext> for
\* i = 1, 2, ..., k without gap or repeat, created in that order, and part i
\* holds the i-th run of linesPerFile lines of the source.
C19_PartNames ==
    Succeeded =>
        /\ \A i \in 1..Len(created) :
                /\ created[i] = PartName(i)
                /\ files[PartName(i)] = WithNewlines(PartLines(i))
        /\ NewFiles = {PartName(i) : i \in 1..Len(created)}
        /\ Len(created) = CeilDiv(Len(SourceLines), args.linesPerFile)

\* a successful split into three parts
C19_Witness ==
    /\ Succeeded
    /\ Len(created) = 3
    /\ Exists(files, PartName(3))
    /\ ~Exists(files, PartName(4))

----------------------------------------------------------------------------
(* C20 *)

\* the second of two calls with the same arguments has returned, the first
\* having returned success
SecondRunReturned == hkRepeated /\ hkPc = "returned" /\ hkFirst.result = "ok"

\* C20 as claimed: a second run of HousekeepFilesByAge or of
\* HousekeepFilesByCount with the same arguments, the directory untouched in
\* between and the clock held fixed, removes nothing.
C20_AsClaimed ==
    SecondRunReturned => (hkRemoved = <<>> /\ hkTree = hkTree0)

----------------------------------------------------------------------------
(* C21 *)

\* the lines of the log that are not reports of an error, in order
ReportLines == Select(hkLog, {l \in Range(hkLog) : l.level # "ERROR"})

\* C21: when a call of either policy has returned success, the log ends with
\* the removal report: a line with the number of paths removed followed by
\* one line for each path whose os.Remove succeeded, and for no other path,
\* in ascending order; when nothing was removed there is instead a single
\* line saying so, at level SUMMARY or INFO.
C21_RemovalReport ==
    (hkPc = "returned" /\ hkResult = "ok") =>
        LET gone == (DOMAIN hkTree0) \ (DOMAIN hkTree)
            k    == Len(hkLog) - Len(ReportLines)
        IN  /\ \A i \in 1..k : hkLog[i].level = "ERROR"
            /\ \A i \in 1..Len(ReportLines) : hkLog[k + i] = ReportLines[i]
            /\ IF gone = {}
               THEN /\ Len(ReportLines) = 1
                    /\ ReportLines[1].level \in {"SUMMARY", "INFO"}
                    /\ ReportLines[1].text \in {"No files removed", "No files to remove"}
               ELSE /\ Len(ReportLines) = 1 + Cardinality(gone)
                    /\ ReportLines[1].level = "SUMMARY"
                    /\ ReportLines[1].text = "Removed files"
                    /\ ReportLines[1].n = Cardinality(gone)
                    /\ {ReportLines[i].path[1] : i \in 2..Len(ReportLines)} = gone
                    /\ FailedPaths \cap gone = {}
                    /\ \A i, j \in 2..Len(ReportLines) :
                            i < j => PathLess(ReportLines[i].path[1], ReportLines[j].path[1])

\* a call has removed two files, the one that sorts last first, and has
\* failed to remove a third path
C21_Witness ==
    /\ hkPc = "returned"
    /\ hkResult = "ok"
    /\ Len(hkRemoved) = 2
    /\ PathLess(hkRemoved[2], hkRemoved[1])
    /\ FailedPaths # {}

----------------------------------------------------------------------------
(* C22 *)

\* the calls made while the log file was open
OpenCalls == Select(logCalls, {c \in Range(logCalls) : c.open})

RECURSIVE LineOfEach(_)
\* one line for each call: the timestamp, the level and the message
LineOfEach(calls) ==
    IF calls = <<>> THEN <<>>
    ELSE <<(<<"ts", Head(calls).level>> \o Head(calls).message)>> \o LineOfEach(Tail(calls))

\* the lines of the log file, each ended by "\n"
LogLines == LinesOf(logDisk, 1, <<>>, TRUE)

\* C22 as claimed: the log file holds, after what it held before, exactly one
\* line for each call made before Close, with the level and the message of
\* the call, in the order of the calls, whatever the messages are.
C22_AsClaimed ==
    /\ logDisk[Len(logDisk)] = "LF"
    /\ LogLines = LinesOf(EarlierLog, 1, <<>>, TRUE) \o LineOfEach(OpenCalls)

\* C22 amended: when no message holds a newline, the log file holds, after
\* what it held before, exactly one line for each call made before Close,
\* with the level and the message of the call, in the order of the calls; a
\* call made after Close adds nothing to the file.
C22_OneLinePerCall ==
    (\A i \in 1..Len(logCalls) : "LF" \notin Range(logCalls[i].message)) =>
        /\ logDisk[Len(logDisk)] = "LF"
        /\ LogLines = LinesOf(EarlierLog, 1, <<>>, TRUE) \o LineOfEach(OpenCalls)

\* two calls of different levels, then Close, then a third call, all of them
\* with a message of one line
C22_Witness ==
    /\ Len(logCalls) = 3
    /\ logCalls[1].open /\ logCalls[2].open /\ ~logCalls[3].open
    /\ logCalls[1].level = "ERROR" /\ logCalls[2].level = "INFO"
    /\ \A i \in 1..3 : logCalls[i].message = <<"m">>
    /\ logFile = "closed"

----------------------------------------------------------------------------
(* C23 *)

\* a step of the loop writes a line
WritesLine == pc = "scan" /\ linesCount' = linesCount + 1

\* a step of the loop opens a part file
OpensPart == pc = "scan" /\ created' # created

\* C23: during a split a part file is opened in the step that writes line
\* k*P+1, for k >= 0, and in no other; the part opened is the next in number
\* and is empty; the part before it has by then been flushed, so that it holds
\* its P lines, and closed; and at no moment is more than one part file open.
C23_PartOpening ==
    /\ [](Cardinality(openParts) <= 1)
    /\ [][/\ OpensPart <=> (WritesLine /\ linesCount % args.linesPerFile = 0)
          /\ OpensPart =>
                LET i == Len(created)
                IN  /\ created' = Append(created, OutputPath(args.outputDir, args.filePath, i + 1))
                    /\ openParts' = {created'[i + 1]}
                    /\ files'[created'[i + 1]] = <<>>
                    /\ i > 0 =>
                        /\ openParts = {created[i]}
                        /\ files'[created[i]] = WithNewlines(PartLines(i))
                        /\ CountLines(files'[created[i]]) = args.linesPerFile]_vars

\* the third part has been opened, the second one closed with its lines
C23_Witness ==
    /\ pc = "scan"
    /\ Len(created) = 3
    /\ openParts = {created[3]}
    /\ files[created[2]] # <<>>
    /\ args.linesPerFile = 1

----------------------------------------------------------------------------
(* C24 *)

\* C24 as claimed: when the source has been renamed into processedDir every
\* line of it has been read, no part file is open, and no line remains
\* unwritten: every part file of the call holds its lines.
C24_AsClaimed ==
    Succeeded =>
        /\ ~ScanLines(scanBuf).found
        /\ "read" \notin injected
        /\ openParts = {}
        /\ writerBuf = <<>>
        /\ \A i \in 1..Len(created) :
                Exists(files, created[i]) /\ files[created[i]] = WithNewlines(PartLines(i))

----------------------------------------------------------------------------
(* C25 *)

\* C25: when os.MkdirAll of outputDir or of processedDir fails the call
\* returns that error at once: the source has not been opened, no part file
\* has been created, and no file has been moved or changed.
C25_MkdirFailure ==
    (injected \cap {"mkdirOutput", "mkdirProcessed"} # {}) =>
        /\ pc = "returned"
        /\ result = "mkdir"
        /\ ~opened
        /\ ~srcOpen
        /\ created = <<>>
        /\ files = fs0.files

\* os.MkdirAll of processedDir has failed, after that of outputDir succeeded,
\* in a call on a source that exists
C25_Witness ==
    /\ pc = "returned"
    /\ result = "mkdir"
    /\ injected = {"mkdirProcessed"}
    /\ Exists(files, args.filePath)
    /\ args.outputDir \in dirs \ fs0.dirs
    /\ args.processedDir \notin dirs

----------------------------------------------------------------------------
(* C26 *)

\* the second of two calls on different sources has succeeded, as the first
SecondSourceDone == prevMade # <<>> /\ Succeeded

\* C26 as claimed: after two successful calls on different sources with the
\* same outputDir and processedDir, every part file and the archived source
\* that the first call made is still there with the content it had, the
\* sources having the same base name or not.
C26_AsClaimed ==
    SecondSourceDone =>
        \A p \in DOMAIN prevMade : Exists(files, p) /\ files[p] = prevMade[p]

----------------------------------------------------------------------------
(* C27 *)

\* whether the cutoff is later than the time of the call, for each argument
CutoffAfterNow == [m \in MaxAgeDaysValues |-> Less64(Int64(0), Cutoff(m))]

\* C27 as claimed: for every maxAgeDays >= 0 the cutoff of HousekeepFilesByAge
\* is not later than the time of the call, no file modified at the time of
\* the call is removed, and a file that a larger maxAgeDays would remove is
\* removed by every smaller one.
C27_AsClaimed ==
    HkSucceeded("age") =>
        /\ ~CutoffAfterNow[hkCall.max]
        /\ \A p \in Range(hkRemoved) : hkTree0[p].age > 0
        /\ \A m \in MaxAgeDaysValues, a \in AllAges :
                (0 <= m /\ m <= hkCall.max /\ BeforeCutoff(a, hkCall.max)) => BeforeCutoff(a, m)

----------------------------------------------------------------------------
(* C28 *)

\* the files that were in outputDir when the call was made
InOutputDir == {p \in DOMAIN fs0.files : p.dir = args.outputDir}

\* the file is where it was when the call was made, with the content it had
Untouched(p) == Exists(files, p) /\ files[p] = fs0.files[p]

\* C28 as claimed: at every moment of a call the files created in outputDir
\* are the parts 1..k of the call, and every other file that was in
\* outputDir is where it was, unchanged.
C28_AsClaimed ==
    /\ \A i \in 1..Len(created) : created[i] = OutputPath(args.outputDir, args.filePath, i)
    /\ \A p \in InOutputDir \ Range(created) : Untouched(p)

\* C28 amended: at every moment of a call the files created in outputDir
\* are the parts 1..k of the call, and every other file that was in
\* outputDir is where it was, unchanged, but for the source itself when it
\* lies in outputDir, which the call moves away, and for a file of the
\* source's name when outputDir is also processedDir, which the source
\* replaces.
C28_OutputDirFrame ==
    /\ \A i \in 1..Len(created) : created[i] = OutputPath(args.outputDir, args.filePath, i)
    /\ \A p \in InOutputDir \ Range(created) :
            (p # args.filePath /\ p # ProcessedPath(args.processedDir, args.filePath))
                => Untouched(p)
    /\ \A p \in DOMAIN files :
            (p.dir = args.outputDir /\ p \notin InOutputDir) =>
                p \in Range(created) \cup {ProcessedPath(args.processedDir, args.filePath)}

\* a call has written one part over the first of the three parts an earlier
\* split of a source of the same name had left, and has returned
C28_Witness ==
    /\ SecondSourceDone
    /\ Len(created) = 1
    /\ created[1] \in DOMAIN prevMade
    /\ \A i \in 2..3 :
            /\ OutputPath(args.outputDir, args.filePath, i) \in DOMAIN prevMade
            /\ Untouched(OutputPath(args.outputDir, args.filePath, i))
    /\ files[created[1]] # prevMade[created[1]]

----------------------------------------------------------------------------
(* C29 *)

\* C29 as claimed: a call with valid arguments on a source that exists, no
\* I/O operation of which has failed, returns success with every line of the
\* source in the part files, whatever the length of the lines.
C29_AsClaimed ==
    (pc = "returned" /\ result # "invalid" /\ Exists(fs0.files, args.filePath)
        /\ injected = {}) =>
        /\ result = "ok"
        /\ ConcatParts(files, 1) = WithNewlines(LinesOf(SourceContent, 1, <<>>, FALSE))

----------------------------------------------------------------------------
(* C30 *)

\* C30 as claimed: HousekeepFilesByAge does not remove the path it is given
\* as dir: when that path exists before the call, a directory or a regular
\* file of any age, it exists after it.
C30_AsClaimed ==
    (HkReturned("age") /\ hkCall.dir \in DOMAIN hkTree0) =>
        /\ hkCall.dir \in DOMAIN hkTree
        /\ hkCall.dir \notin Range(hkRemoved)

====
